---- MODULE Spec2Model ----
(***************************************************************************)
(* BackupOpt: the parallel fragment / archive processing engine.           *)
(*                                                                         *)
(*   backup_processing.py  split_file, write_fragment, merge_files,        *)
(*                         restore_from_archive, extract_single_member     *)
(*   storage_backends.py   copy_fragments_to_usb,                          *)
(*                         _copy_single_fragment_to_usb_task               *)
(*                                                                         *)
(* File names are sequences of one-character strings, file contents are    *)
(* sequences of byte values, a directory is a function from the names it   *)
(* holds to their contents.  The caller of an operation is a sequential    *)
(* process whose position is pc; the units handed to dask.compute are run  *)
(* by the worker threads of the threaded scheduler.                        *)
(*                                                                         *)
(*   Spec     every interleaving of the workers, every unit may fail,      *)
(*            small inputs                                                 *)
(*   SpecSeq  the failure-free single-worker schedule of split followed by *)
(*            merge_files, small inputs and the long inputs (12 and 1000   *)
(*            fragments)                                                   *)
(***************************************************************************)
EXTENDS FiniteSets, Integers, Sequences, TLC

VARIABLES
    cmd,            \* the backup command: its options, finished stages and exit
    firstRun,       \* the directory an operation left when it is run once more
    pc,             \* position of the caller inside the running operation
    op,             \* the operation the caller runs
    inFile,         \* bytes of large_file_path
    fragSize,       \* fragment_size_bytes
    readPos,        \* offset of f_in inside large_file_path
    file_number,    \* split_file: counter of the chunks read so far
    tasks,          \* the delayed units of the batch, in dispatch order
    fragDir,        \* fragments_dir_local / fragments_source_dir
    usbDir,         \* usb_target_fragments_dir
    container,      \* members of backup_zip_path
    password,       \* the password handed to restore_from_archive
    source_folders, \* the folders handed to create_backup_archive
    archived,       \* per written file: its path, matched folder and arcname
    destDir,        \* restore_to_path
    results,        \* the tuple dask.compute returned to the caller
    outcome,        \* how the operation ended
    listing,        \* what os.listdir returned to the operation
    fragment_paths, \* merge_files: the sorted fragment list
    mergeIdx,       \* merge_files: fragments already appended to f_out
    outFile         \* bytes of output_file_path, NoFile while absent

vars == <<cmd, firstRun, pc, op, inFile, fragSize, readPos, file_number, tasks, fragDir,
          usbDir, container, password, source_folders, archived, destDir, results, outcome, listing, fragment_paths,
          mergeIdx, outFile>>

\* the command has not ended (exit codes are 0 and 1)
NoExit == 0 - 1

\* no backup command is running
NoCmd == [storage_type |-> "none", fragment_size |-> 0, stages |-> <<>>, exit |-> NoExit]

\* no operation was run a second time
NoRun == [again |-> FALSE, ok |-> FALSE, dir |-> <<>>]

(***************************************************************************)
(* Bounds of the model.                                                    *)
(***************************************************************************)
MaxLen == 3
MaxSize == 2
NumWorkers == 2
MaxPerm == 3
MidLen == 12
BigLen == 1000

(***************************************************************************)
(* Characters and strings.                                                 *)
(***************************************************************************)
\* the characters used by the model, in ascending code point order
Alphabet == <<".", "/", "0", "1", "2", "3", "4", "5", "6", "7", "8", "9",
              "a", "b", "d", "f", "n", "p", "r", "t">>

Ord(c) == CHOOSE i \in 1..Len(Alphabet) : Alphabet[i] = c

DigitChar(d) == Alphabet[d + 3]

\* str.__lt__: comparison by code point, a proper prefix sorts first
RECURSIVE StrLess(_, _)
StrLess(a, b) ==
    IF b = <<>> THEN FALSE
    ELSE IF a = <<>> THEN TRUE
    ELSE IF a[1] # b[1] THEN Ord(a[1]) < Ord(b[1])
    ELSE StrLess(Tail(a), Tail(b))

StartsWith(s, p) == Len(s) >= Len(p) /\ SubSeq(s, 1, Len(p)) = p

EndsWith(s, x) == Len(s) >= Len(x) /\ SubSeq(s, Len(s) - Len(x) + 1, Len(s)) = x

\* the "in" operator of str
Contains(s, x) == \E i \in 1..(Len(s) - Len(x) + 1) : SubSeq(s, i, i + Len(x) - 1) = x

\* the list left in listing order
Unsorted(s) == s

\* sorted(list) of strings: the element with k-1 predecessors comes k-th
\* (equal elements keep their order)
Sorted(s) ==
    LET n == Len(s)
        Before(j, i) == StrLess(s[j], s[i]) \/ (s[j] = s[i] /\ j < i)
        ranked == {<<1 + Cardinality({j \in 1..n : Before(j, i)}), i>> : i \in 1..n}
    IN [k \in 1..n |-> s[(CHOOSE p \in ranked : p[1] = k)[2]]]

Reverse(s) == [i \in 1..Len(s) |-> s[Len(s) + 1 - i]]

\* the names of S from the greatest to the least
Descending(S) ==
    LET ranked == {<<1 + Cardinality({y \in S : StrLess(x, y)}), x>> : x \in S}
    IN [k \in 1..Cardinality(S) |-> (CHOOSE p \in ranked : p[1] = k)[2]]

\* s with its first element moved to the end
Rotated(s) == IF s = <<>> THEN s ELSE Tail(s) \o <<s[1]>>

\* os.listdir: the names of a directory in an order the file system picks;
\* every order for a small directory, three orders for a long one and the
\* descending one beyond
ListingOrders(dir) ==
    LET S == DOMAIN dir
        n == Cardinality(S)
    IN IF n <= MaxPerm
       THEN {s \in [1..n -> S] : \A i, j \in 1..n : i # j => s[i] # s[j]}
       ELSE IF n <= MidLen + 1
       THEN {Descending(S), Reverse(Descending(S)), Rotated(Descending(S))}
       ELSE {Descending(S)}

\* decimal digits of a natural number, most significant first
RECURSIVE Decimal(_)
Decimal(n) == IF n < 10 THEN <<DigitChar(n)>> ELSE Decimal(n \div 10) \o <<DigitChar(n % 10)>>

\* the format specification 03d: zero padded to a minimum width of three
PadWidth == 3
RECURSIVE ZeroPad(_)
ZeroPad(s) == IF Len(s) >= PadWidth THEN s ELSE ZeroPad(<<"0">> \o s)

Format03d(n) == ZeroPad(Decimal(n))

DotPart == <<".", "p", "a", "r", "t">>

\* f"{base_filename}.part{file_number:03d}"
FragmentName(base, n) == base \o DotPart \o Format03d(n)

(***************************************************************************)
(* Files and directories.                                                  *)
(***************************************************************************)
Bytes == {0, 1}

File(data) == [kind |-> "file", data |-> data]

Directory == [kind |-> "dir", data |-> <<>>]

Absent == [kind |-> "absent", data |-> <<>>]

EmptyDir == [n \in {} |-> Absent]

\* the entry called name is created or replaced
DirPut(dir, name, entry) == (name :> entry) @@ dir

Min(a, b) == IF a < b THEN a ELSE b

\* f_in.read(n) at offset pos: at most n bytes, everything left when n < 0
Read(f, pos, n) ==
    IF n < 0 THEN SubSeq(f, pos + 1, Len(f))
    ELSE SubSeq(f, pos + 1, Min(Len(f), pos + n))

\* large_file_path is <somewhere>/f
BaseFilename == <<"f">>

(***************************************************************************)
(* The units of work.  io is what the operating system does to the unit:   *)
(* it completes, it fails before the destination is opened, or it fails    *)
(* after n bytes of the payload reached the destination.  Each unit        *)
(* function yields the destination directory it leaves, whether an         *)
(* exception left the function, and the pair it returned.                  *)
(***************************************************************************)
IOOutcomes(data) ==
    {[kind |-> "ok", n |-> Len(data)], [kind |-> "open_fails", n |-> 0]}
    \cup {[kind |-> "write_fails", n |-> k] : k \in 0..(Len(data) - 1)}

IOSuccess(data) == [kind |-> "ok", n |-> Len(data)]

NoRet == [id |-> <<>>, ok |-> FALSE]

\* WriteBytes with the destination opened for appending
WriteBytesAppend(dir, path, data, io) ==
    IF io.kind = "open_fails" THEN dir
    ELSE DirPut(dir, path,
                File((IF path \in DOMAIN dir THEN dir[path].data ELSE <<>>)
                     \o SubSeq(data, 1, io.n)))

\* the effect of open(path, 'wb') followed by write(data) under io
WriteBytes(dir, path, data, io) ==
    IF io.kind = "open_fails" THEN dir
    ELSE DirPut(dir, path, File(SubSeq(data, 1, io.n)))

\* write_fragment without its except clause: the failure leaves the unit
write_fragment_uncaught(data_chunk, fragment_path, io, dir) ==
    [fs |-> WriteBytes(dir, fragment_path, data_chunk, io), raised |-> io.kind # "ok",
     ret |-> [id |-> fragment_path, ok |-> TRUE]]

\* write_fragment opening the fragment for appending
write_fragment_appends(data_chunk, fragment_path, io, dir) ==
    [fs |-> WriteBytesAppend(dir, fragment_path, data_chunk, io), raised |-> FALSE,
     ret |-> [id |-> fragment_path, ok |-> io.kind = "ok"]]

\* lines 159-165: the chunk is written; an exception becomes (path, False)
write_fragment(data_chunk, fragment_path, io, dir) ==
    IF io.kind = "ok"
    THEN [fs |-> WriteBytes(dir, fragment_path, data_chunk, io), raised |-> FALSE,
          ret |-> [id |-> fragment_path, ok |-> TRUE]]
    ELSE [fs |-> WriteBytes(dir, fragment_path, data_chunk, io), raised |-> FALSE,
          ret |-> [id |-> fragment_path, ok |-> FALSE]]

\* the copy unit returning True from its except clause
copy_single_fragment_reports_success(fragment_path, usb_destination_file_path, io, src, dst) ==
    [fs |-> WriteBytes(dst, usb_destination_file_path, src[fragment_path].data, io),
     raised |-> FALSE,
     ret |-> [id |-> usb_destination_file_path, ok |-> TRUE]]

\* shutil.copy2 inside try/except: the bytes of the source fragment go to
\* the destination path
copy_single_fragment_to_usb_task(fragment_path, usb_destination_file_path, io, src, dst) ==
    IF io.kind = "ok"
    THEN [fs |-> WriteBytes(dst, usb_destination_file_path, src[fragment_path].data, io),
          raised |-> FALSE,
          ret |-> [id |-> usb_destination_file_path, ok |-> TRUE]]
    ELSE [fs |-> WriteBytes(dst, usb_destination_file_path, src[fragment_path].data, io),
          raised |-> FALSE,
          ret |-> [id |-> usb_destination_file_path, ok |-> FALSE]]

IsDirEntry(member_name) == EndsWith(member_name, <<"/">>)

\* a path without its trailing slash
StripSlash(p) == IF IsDirEntry(p) THEN SubSeq(p, 1, Len(p) - 1) ELSE p

\* str.rstrip('/')
RECURSIVE RStripSlashes(_)
RStripSlashes(p) ==
    IF p # <<>> /\ p[Len(p)] = "/" THEN RStripSlashes(SubSeq(p, 1, Len(p) - 1)) ELSE p

\* os.path.dirname: what precedes the last slash, without trailing slashes
\* unless it consists of slashes only
DirName(p) ==
    LET slashes == {i \in 1..Len(p) : p[i] = "/"}
        head == SubSeq(p, 1, CHOOSE i \in slashes : \A j \in slashes : j <= i)
    IN IF slashes = {} THEN <<>>
       ELSE IF RStripSlashes(head) = <<>> THEN head ELSE RStripSlashes(head)

\* os.path.basename: what follows the last slash
BaseName(p) ==
    LET slashes == {i \in 1..Len(p) : p[i] = "/"}
    IN IF slashes = {} THEN p
       ELSE SubSeq(p, (CHOOSE i \in slashes : \A j \in slashes : j <= i) + 1, Len(p))

\* the directory p and the directories above it
SelfAndAncestors(p) ==
    IF p = <<>> THEN {}
    ELSE {SubSeq(p, 1, i - 1) : i \in {j \in 2..(Len(p) + 1) : j = Len(p) + 1 \/ p[j] = "/"}}

\* os.makedirs(p, exist_ok=True) fails when a component of p is a file
MakeDirsFails(dir, p) ==
    \E a \in SelfAndAncestors(p) : a \in DOMAIN dir /\ dir[a].kind = "file"

MakeDirs(dir, p) ==
    [x \in (DOMAIN dir) \cup SelfAndAncestors(p) |->
        IF x \in SelfAndAncestors(p) THEN Directory ELSE dir[x]]

\* passwords; the empty one is falsy, so line 100 turns it into None
NoPassword == <<>>
RightPassword == <<"p">>
WrongPassword == <<"b">>
Passwords == {NoPassword, RightPassword, WrongPassword}

\* the member can be read with pwd: it is a directory entry, it is stored
\* in the clear, or pwd is the password it was encrypted with
Decrypts(member, pwd) ==
    IsDirEntry(member.name) \/ member.key = NoPassword \/ member.key = pwd

\* the outcome of zf_worker.extract for a unit that meets io: opening an
\* encrypted member with another password raises before anything is written
ExtractOutcome(member, password_bytes, io) ==
    IF Decrypts(member, password_bytes) THEN io ELSE [kind |-> "bad_password", n |-> 0]

\* ZipFile.extract of one member below the destination
ExtractMember(dir, member, io) ==
    IF io.kind \in {"open_fails", "bad_password"} THEN dir
    ELSE IF IsDirEntry(member.name) THEN MakeDirs(dir, StripSlash(member.name))
    ELSE DirPut(MakeDirs(dir, DirName(member.name)), member.name,
                File(SubSeq(member.data, 1, io.n)))

\* the extract unit returning True from its except clause
extract_single_member_reports_success(member, io, dir) ==
    [fs |-> ExtractMember(dir, member, io), raised |-> FALSE,
     ret |-> [id |-> member.name, ok |-> TRUE]]

\* lines 78-86: the worker opens the archive itself and extracts one member
extract_single_member(member, io, dir) ==
    IF io.kind = "ok"
    THEN [fs |-> ExtractMember(dir, member, io), raised |-> FALSE,
          ret |-> [id |-> member.name, ok |-> TRUE]]
    ELSE [fs |-> ExtractMember(dir, member, io), raised |-> FALSE,
          ret |-> [id |-> member.name, ok |-> FALSE]]

\* a delayed call: nothing runs until dask.compute
Delayed(fn, id, arg) ==
    [fn |-> fn, id |-> id, arg |-> arg, st |-> "Pending", ret |-> NoRet]

(***************************************************************************)
(* dask.compute with the threaded scheduler.                               *)
(***************************************************************************)
Terminal == {"Succeeded", "Failed"}

NumRunning == Cardinality({i \in 1..Len(tasks) : tasks[i].st = "Running"})

\* compute handing control back as soon as one unit has finished
DaskDoneFirstCompleted(ts) == \E i \in 1..Len(ts) : ts[i].st \in {"Succeeded", "Failed", "Raised"}

\* compute hands control back when every unit has finished, or as soon as
\* an exception left a unit (it is raised again in the caller)
DaskDone(ts) ==
    \/ \A i \in 1..Len(ts) : ts[i].st \in Terminal
    \/ \E i \in 1..Len(ts) : ts[i].st = "Raised"

DaskRaised(ts) == \E i \in 1..Len(ts) : ts[i].st = "Raised"

\* results come back in the order of the arguments
DaskResults(ts) == [i \in 1..Len(ts) |-> ts[i].ret]

\* sum(1 for _, success in results if not success)
NumFailed(res) == Cardinality({i \in 1..Len(res) : ~res[i].ok})

\* the comprehension without its condition
AllPaths(res) == [i \in 1..Len(res) |-> res[i].id]

\* [path for path, success in results if not success]
FailedPaths(res) ==
    LET failed == SelectSeq(res, LAMBDA r : ~r.ok)
    IN [i \in 1..Len(failed) |-> failed[i].id]

\* how an operation ends: it returns (after a warning when num_failed > 0) or
\* it raises the exception kind; what tells which raise statement it was
NoOutcome == [kind |-> "none", what |-> "", num_failed |-> 0, names |-> <<>>]

Returned(n) == [kind |-> "returned", what |-> "", num_failed |-> n, names |-> <<>>]

Raised(kind, what, n, names) ==
    [kind |-> kind, what |-> what, num_failed |-> n, names |-> names]

\* a coordinator that takes a failed unit again
UnitStartRetries(i) ==
    /\ pc = "compute"
    /\ tasks[i].st \in {"Pending", "Failed"}
    /\ ~DaskRaised(tasks)
    /\ NumRunning < NumWorkers
    /\ tasks' = [tasks EXCEPT ![i].st = "Running"]
    /\ UNCHANGED <<cmd, firstRun, pc, op, inFile, fragSize, readPos, file_number, fragDir, usbDir,
                   container, password, source_folders, archived, destDir, results, outcome, fragment_paths, mergeIdx,
                   outFile, listing>>

\* a worker thread takes a unit that is ready
UnitStart(i) ==
    /\ pc = "compute"
    /\ tasks[i].st = "Pending"
    /\ ~DaskRaised(tasks)
    /\ NumRunning < NumWorkers
    /\ tasks' = [tasks EXCEPT ![i].st = "Running"]
    /\ UNCHANGED <<cmd, firstRun, pc, op, inFile, fragSize, readPos, file_number, fragDir, usbDir,
                   container, password, source_folders, archived, destDir, results, outcome, fragment_paths, mergeIdx,
                   outFile, listing>>

UnitState(r, io) ==
    IF r.raised THEN "Raised" ELSE IF io.kind = "ok" THEN "Succeeded" ELSE "Failed"

\* the worker runs write_fragment to its end
WriteFragmentUnit(i, io) ==
    /\ pc = "compute"
    /\ tasks[i].fn = "write_fragment"
    /\ tasks[i].st = "Running"
    /\ LET r == write_fragment(tasks[i].arg, tasks[i].id, io, fragDir)
       IN /\ fragDir' = r.fs
          /\ tasks' = [tasks EXCEPT ![i].st = UnitState(r, io),
                                    ![i].ret = IF r.raised THEN NoRet ELSE r.ret]
    /\ UNCHANGED <<cmd, firstRun, pc, op, inFile, fragSize, readPos, file_number, usbDir,
                   container, password, source_folders, archived, destDir, results, outcome, fragment_paths, mergeIdx,
                   outFile, listing>>

(***************************************************************************)
(* split_file                                                              *)
(***************************************************************************)
\* a turn that tests for the end of the file after the unit is built
ReadTurnTestsLast(f, size, rd) ==
    LET chunk == Read(f, rd.pos, size)
    IN IF rd.eof THEN rd
       ELSE [pos |-> rd.pos + Len(chunk),
             file_number |-> rd.file_number + 1,
             tasks |-> Append(rd.tasks,
                              Delayed("write_fragment",
                                      FragmentName(BaseFilename, rd.file_number + 1), chunk)),
             eof |-> chunk = <<>>]

\* lines 178-184: one turn of the read loop; rd is the state of the loop
ReadTurn(f, size, rd) ==
    LET chunk == Read(f, rd.pos, size)
    IN IF rd.eof \/ chunk = <<>>
       THEN [rd EXCEPT !.eof = TRUE]
       ELSE [pos |-> rd.pos + Len(chunk),
             file_number |-> rd.file_number + 1,
             tasks |-> Append(rd.tasks,
                              Delayed("write_fragment",
                                      FragmentName(BaseFilename, rd.file_number + 1), chunk)),
             eof |-> FALSE]

\* n turns of the loop, a turn after the break changes nothing
RECURSIVE ReadTurns(_, _, _, _)
ReadTurns(f, size, rd, n) ==
    IF n = 0 THEN rd
    ELSE IF n = 1 THEN ReadTurn(f, size, rd)
    ELSE LET half == ReadTurns(f, size, rd, n \div 2)
         IN IF half.eof THEN half ELSE ReadTurns(f, size, half, n - (n \div 2))

\* lines 174-184: the loop runs until read returns nothing, which takes at
\* most one turn per byte and one more
ReadLoop(f, size) ==
    ReadTurns(f, size, [pos |-> 0, file_number |-> 0, tasks |-> <<>>, eof |-> FALSE],
              Len(f) + 1)

\* lines 169-186 and 195-197: the file is read and a unit is built for each
\* chunk; without units split returns at once
SplitBegin(file, size, dir) ==
    /\ op' = "split"
    /\ inFile' = file
    /\ fragSize' = size
    /\ fragDir' = dir
    /\ LET rd == ReadLoop(file, size)
       IN /\ readPos' = rd.pos
          /\ file_number' = rd.file_number
          /\ tasks' = rd.tasks
          /\ pc' = IF rd.tasks # <<>> THEN "compute" ELSE "done"
          /\ outcome' = IF rd.tasks # <<>> THEN outcome ELSE Returned(0)
    /\ UNCHANGED <<usbDir, container, password, source_folders, archived, destDir, results, listing, fragment_paths,
                   mergeIdx, outFile>>

\* split_file called by the command
SplitDispatch(file, size, dir) ==
    /\ pc = "idle"
    /\ SplitBegin(file, size, dir)
    /\ UNCHANGED <<cmd, firstRun>>

\* lines 189-197: compute returns, the failures are counted and reported
SplitFinish ==
    /\ pc = "compute"
    /\ op = "split"
    /\ DaskDone(tasks)
    /\ pc' = "done"
    /\ IF DaskRaised(tasks)
       THEN /\ outcome' = Raised("Exception", "unit raised", 0, <<>>)
            /\ UNCHANGED results
       ELSE LET res == DaskResults(tasks)
            IN /\ results' = res
               /\ outcome' = IF NumFailed(res) > 0
                             THEN Raised("IOError", "fragment write", NumFailed(res), FailedPaths(res))
                             ELSE Returned(0)
    /\ UNCHANGED <<cmd, firstRun, op, inFile, fragSize, readPos, file_number, tasks, fragDir,
                   usbDir, container, password, source_folders, archived, destDir, fragment_paths, mergeIdx, outFile, listing>>

\* the worker runs _copy_single_fragment_to_usb_task to its end
CopyFragmentUnit(i, io) ==
    /\ pc = "compute"
    /\ tasks[i].fn = "copy_fragment"
    /\ tasks[i].st = "Running"
    /\ LET r == copy_single_fragment_to_usb_task(tasks[i].arg, tasks[i].id, io,
                                                 fragDir, usbDir)
       IN /\ usbDir' = r.fs
          /\ tasks' = [tasks EXCEPT ![i].st = UnitState(r, io),
                                    ![i].ret = IF r.raised THEN NoRet ELSE r.ret]
    /\ UNCHANGED <<cmd, firstRun, pc, op, inFile, fragSize, readPos, file_number, fragDir,
                   container, password, source_folders, archived, destDir, results, outcome, fragment_paths, mergeIdx,
                   outFile, listing>>

\* the worker runs extract_single_member to its end
ExtractUnit(i, io) ==
    /\ pc = "compute"
    /\ tasks[i].fn = "extract_single_member"
    /\ tasks[i].st = "Running"
    /\ LET met == ExtractOutcome(tasks[i].arg, password, io)
           r == extract_single_member(tasks[i].arg, met, destDir)
       IN /\ destDir' = r.fs
          /\ tasks' = [tasks EXCEPT ![i].st = UnitState(r, met),
                                    ![i].ret = IF r.raised THEN NoRet ELSE r.ret]
    /\ UNCHANGED <<cmd, firstRun, pc, op, inFile, fragSize, readPos, file_number, fragDir, usbDir,
                   container, password, source_folders, archived, results, outcome, fragment_paths, mergeIdx, outFile, listing>>

\* the bytes a unit has to move
Payload(t) ==
    IF t.fn = "write_fragment" THEN t.arg
    ELSE IF t.fn = "copy_fragment" THEN fragDir[t.arg].data
    ELSE t.arg.data

(***************************************************************************)
(* copy_fragments_to_usb                                                   *)
(***************************************************************************)
\* os.path.isfile(...) and ".part" in fragment_filename
IsFragmentToCopy(dir, name) == dir[name].kind = "file" /\ Contains(name, DotPart)

\* lines 246-251: one unit per listed fragment, in listing order
CopyTasks(dir, names) ==
    LET picked == SelectSeq(names, LAMBDA name : IsFragmentToCopy(dir, name))
    IN [i \in 1..Len(picked) |-> Delayed("copy_fragment", picked[i], picked[i])]

\* lines 237-251, and 262-263 when nothing is to be copied
CopyBegin(src, srcIsDir, usb, mkdirOk, order) ==
    /\ op' = "copy"
    /\ fragDir' = src
    /\ IF ~srcIsDir
       THEN /\ pc' = "done"
            /\ outcome' = Raised("FileNotFoundError", "source directory", 0, <<>>)
            /\ UNCHANGED <<tasks, usbDir, listing>>
       ELSE IF ~mkdirOk
       THEN /\ pc' = "done"
            /\ outcome' = Raised("IOError", "target directory", 0, <<>>)
            /\ UNCHANGED <<tasks, usbDir, listing>>
       ELSE /\ usbDir' = usb
            /\ listing' = order
            /\ tasks' = CopyTasks(src, order)
            /\ pc' = IF CopyTasks(src, order) # <<>> THEN "compute" ELSE "done"
            /\ outcome' = IF CopyTasks(src, order) # <<>> THEN outcome ELSE Returned(0)
    /\ UNCHANGED <<inFile, fragSize, readPos, file_number, container, password, source_folders, archived, destDir,
                   results, fragment_paths, mergeIdx, outFile>>

\* copy_fragments_to_usb called by the command
CopyStart(src, srcIsDir, usb, mkdirOk, order) ==
    /\ pc = "idle"
    /\ CopyBegin(src, srcIsDir, usb, mkdirOk, order)
    /\ UNCHANGED <<cmd, firstRun>>

\* lines 256-261: compute returns, the failures are counted and reported
CopyFinish ==
    /\ pc = "compute"
    /\ op = "copy"
    /\ DaskDone(tasks)
    /\ pc' = "done"
    /\ IF DaskRaised(tasks)
       THEN /\ outcome' = Raised("Exception", "unit raised", 0, <<>>)
            /\ UNCHANGED results
       ELSE LET res == DaskResults(tasks)
            IN /\ results' = res
               /\ outcome' = IF NumFailed(res) > 0
                             THEN Raised("IOError", "fragment copy", NumFailed(res), FailedPaths(res))
                             ELSE Returned(0)
    /\ UNCHANGED <<cmd, firstRun, op, inFile, fragSize, readPos, file_number, tasks, fragDir,
                   usbDir, container, password, source_folders, archived, destDir, fragment_paths, mergeIdx, outFile, listing>>

(***************************************************************************)
(* upload_to_google_drive (src/storage_backends.py)                        *)
(***************************************************************************)
\* what the upload unit meets: the service cannot be built inside the unit,
\* the local file cannot be opened by MediaFileUpload, the request fails
\* (an error answer or the time limit of the transport), or the file is stored
UploadOutcomes == {"ok", "no_service", "unreadable", "rejected"}

\* lines 83-109: the service test returns (None, name), MediaFileUpload is
\* called outside the try so its exception leaves the unit, and a failure
\* of the request is caught and returns (None, name)
upload_file_to_gdrive_task(filename_on_cloud, net) ==
    [raised |-> net = "unreadable",
     ret |-> [id |-> filename_on_cloud, ok |-> net = "ok"]]

\* lines 112-125: the tests before the unit is built, then the single unit
UploadBegin(libs, exists, service) ==
    /\ op' = "upload"
    /\ IF ~libs
       THEN /\ pc' = "done"
            /\ outcome' = Raised("EnvironmentError", "google libraries", 0, <<>>)
            /\ UNCHANGED tasks
       ELSE IF ~exists
       THEN /\ pc' = "done"
            /\ outcome' = Raised("FileNotFoundError", "local file", 0, <<>>)
            /\ UNCHANGED tasks
       ELSE IF ~service
       THEN /\ pc' = "done"
            /\ outcome' = Raised("ConnectionError", "drive service", 0, <<>>)
            /\ UNCHANGED tasks
       ELSE /\ pc' = "compute"
            /\ tasks' = <<Delayed("upload", BaseFilename, File(<<>>))>>
            /\ UNCHANGED outcome
    /\ UNCHANGED <<inFile, fragSize, readPos, file_number, fragDir, usbDir, container,
                   password, source_folders, archived, destDir, results, listing,
                   fragment_paths, mergeIdx, outFile>>

\* upload_to_google_drive called on its own
UploadStart(libs, exists, service) ==
    /\ pc = "idle"
    /\ UploadBegin(libs, exists, service)
    /\ UNCHANGED <<cmd, firstRun>>

\* the worker runs the upload unit to its end
UploadUnit(i, net) ==
    /\ pc = "compute"
    /\ tasks[i].fn = "upload"
    /\ tasks[i].st = "Running"
    /\ LET r == upload_file_to_gdrive_task(tasks[i].id, net)
       IN tasks' = [tasks EXCEPT ![i].st = IF r.raised THEN "Raised"
                                           ELSE IF r.ret.ok THEN "Succeeded" ELSE "Failed",
                                 ![i].ret = IF r.raised THEN NoRet ELSE r.ret]
    /\ UNCHANGED <<cmd, firstRun, pc, op, inFile, fragSize, readPos, file_number, fragDir, usbDir,
                   container, password, source_folders, archived, destDir, results,
                   outcome, listing, fragment_paths, mergeIdx, outFile>>

\* a caller that goes on only with a result of the unit
UploadFinishAwaitsResult ==
    /\ pc = "compute"
    /\ op = "upload"
    /\ \A i \in 1..Len(tasks) : tasks[i].st \in Terminal
    /\ pc' = "done"
    /\ results' = DaskResults(tasks)
    /\ outcome' = IF ~results'[1].ok
                  THEN Raised("IOError", "upload", 1, <<results'[1].id>>)
                  ELSE Returned(0)
    /\ UNCHANGED <<cmd, firstRun, op, inFile, fragSize, readPos, file_number, tasks, fragDir, usbDir,
                   container, password, source_folders, archived, destDir, listing,
                   fragment_paths, mergeIdx, outFile>>

\* lines 128-133: compute returns or raises again what left the unit; a
\* result without a file id is raised as IOError
UploadFinish ==
    /\ pc = "compute"
    /\ op = "upload"
    /\ DaskDone(tasks)
    /\ pc' = "done"
    /\ IF DaskRaised(tasks)
       THEN /\ outcome' = Raised("Exception", "unit raised", 0, <<>>)
            /\ UNCHANGED results
       ELSE LET res == DaskResults(tasks)
            IN /\ results' = res
               /\ outcome' = IF ~res[1].ok
                             THEN Raised("IOError", "upload", 1, <<res[1].id>>)
                             ELSE Returned(0)
    /\ UNCHANGED <<cmd, firstRun, op, inFile, fragSize, readPos, file_number, tasks, fragDir, usbDir,
                   container, password, source_folders, archived, destDir, listing,
                   fragment_paths, mergeIdx, outFile>>

(***************************************************************************)
(* restore_from_archive                                                    *)
(***************************************************************************)
\* lines 122-129: the directories made before the units are dispatched
RECURSIVE PrepareDirs(_, _)
PrepareDirs(members, dir) ==
    IF members = <<>> THEN [ok |-> TRUE, fs |-> dir]
    ELSE LET member == members[1].name
             target == IF IsDirEntry(member) THEN StripSlash(member) ELSE DirName(member)
         IN IF MakeDirsFails(dir, target) THEN [ok |-> FALSE, fs |-> dir]
            ELSE PrepareDirs(Tail(members), MakeDirs(dir, target))

\* ZipFile.getinfo: of the members recorded under a name, the last one
GetInfo(members, member_name) ==
    members[CHOOSE i \in 1..Len(members) :
                /\ members[i].name = member_name
                /\ \A j \in (i + 1)..Len(members) : members[j].name # member_name]

\* lines 131-133: a unit is appended for every name of the list; the unit
\* extracts the member the archive gives for that name (line 82)
ExtractTasks(members) ==
    [i \in 1..Len(members) |->
        Delayed("extract_single_member", members[i].name, GetInfo(members, members[i].name))]

\* lines 94-133: the archive is opened once, the directories are made and
\* the units are built; namelist (lines 109, 115) reads the central directory,
\* which is stored in the clear, so it returns the names whatever password
\* was set and the handler of lines 110-113 is never entered
RestoreBegin(zip, members, pwd, dest) ==
    /\ op' = "restore"
    /\ container' = members
    /\ password' = pwd
    /\ IF zip = "missing"
       THEN /\ pc' = "done"
            /\ outcome' = Raised("FileNotFoundError", "backup file", 0, <<>>)
            /\ UNCHANGED <<tasks, destDir>>
       ELSE IF zip = "badzip"
       THEN /\ pc' = "done"
            /\ outcome' = Raised("ValueError", "bad zip file", 0, <<>>)
            /\ destDir' = dest
            /\ UNCHANGED tasks
       ELSE IF members = <<>>
       THEN /\ pc' = "done"
            /\ outcome' = Returned(0)
            /\ destDir' = dest
            /\ UNCHANGED tasks
       ELSE LET prep == PrepareDirs(members, dest)
            IN /\ destDir' = prep.fs
               /\ IF prep.ok
                  THEN /\ tasks' = ExtractTasks(members)
                       /\ pc' = "compute"
                       /\ UNCHANGED outcome
                  ELSE /\ pc' = "done"
                       /\ outcome' = Raised("OSError", "makedirs", 0, <<>>)
                       /\ UNCHANGED tasks
    /\ UNCHANGED <<cmd, inFile, fragSize, readPos, file_number, fragDir, usbDir, source_folders,
                   archived, results, fragment_paths, mergeIdx, outFile, listing>>

\* restore_from_archive called on an archive from elsewhere
RestoreStart(zip, members, pwd, dest) ==
    /\ pc = "idle"
    /\ RestoreBegin(zip, members, pwd, dest)
    /\ UNCHANGED firstRun

\* restore escalating a failed unit the way split_file does
RestoreFinishFatal ==
    /\ pc = "compute"
    /\ op = "restore"
    /\ DaskDone(tasks)
    /\ pc' = "done"
    /\ IF DaskRaised(tasks)
       THEN /\ outcome' = Raised("Exception", "unit raised", 0, <<>>)
            /\ UNCHANGED results
       ELSE LET res == DaskResults(tasks)
            IN /\ results' = res
               /\ outcome' = IF NumFailed(res) > 0
                             THEN Raised("IOError", "extract", NumFailed(res), FailedPaths(res))
                             ELSE Returned(0)
    /\ UNCHANGED <<cmd, firstRun, op, inFile, fragSize, readPos, file_number, tasks, fragDir,
                   usbDir, container, password, source_folders, archived, destDir, listing, fragment_paths, mergeIdx, outFile>>

\* lines 138-148: compute returns, the failures are counted, a warning with
\* the count is printed and the call returns
RestoreFinish ==
    /\ pc = "compute"
    /\ op = "restore"
    /\ DaskDone(tasks)
    /\ pc' = "done"
    /\ IF DaskRaised(tasks)
       THEN /\ outcome' = Raised("Exception", "unit raised", 0, <<>>)
            /\ UNCHANGED results
       ELSE LET res == DaskResults(tasks)
            IN /\ results' = res
               /\ outcome' = Returned(NumFailed(res))
    /\ UNCHANGED <<cmd, firstRun, op, inFile, fragSize, readPos, file_number, tasks, fragDir,
                   usbDir, container, password, source_folders, archived, destDir, fragment_paths, mergeIdx, outFile, listing>>

(***************************************************************************)
(* merge_files                                                             *)
(***************************************************************************)
\* range(1000) in the suffix test
PartRange == 1000

\* tuple(f".part{i:03d}" for i in range(1000))
PartSuffixes == {DotPart \o Format03d(i) : i \in 0..(PartRange - 1)}

\* f.startswith(base_filename_with_ext) and f.endswith(<the tuple>)
IsFragmentOf(f, base) ==
    /\ StartsWith(f, base)
    /\ \E x \in PartSuffixes : EndsWith(f, x)

\* lines 206-210: the listing is filtered and sorted
FragmentPaths(names, base) == Sorted(SelectSeq(names, LAMBDA f : IsFragmentOf(f, base)))

\* lines 220-225: what the loop appends to the output for paths[from..to]
RECURSIVE CopyFragments(_, _, _, _)
CopyFragments(dir, paths, from, to) ==
    IF from > to THEN <<>>
    ELSE IF from = to THEN dir[paths[from]].data
    ELSE CopyFragments(dir, paths, from, (from + to) \div 2)
             \o CopyFragments(dir, paths, (from + to) \div 2 + 1, to)

\* the ways reading the fragments can go: no failure (k = 0), or the read
\* of fragment k fails after n of its bytes were copied
NoReadFailure == [k |-> 0, n |-> 0]

ReadFailures(dir, paths) ==
    {fail \in [k : 1..Len(paths), n : 0..MaxLen] : fail.n <= Len(dir[paths[fail.k]].data)}

\* an output that goes on with the fragments after the one that failed
MergeOutputGoesOn(dir, paths, fail) ==
    CopyFragments(dir, paths, 1, fail.k - 1)
        \o SubSeq(dir[paths[fail.k]].data, 1, fail.n)
        \o CopyFragments(dir, paths, fail.k + 1, Len(paths))

\* lines 219-225: what f_out holds when the exception leaves the loop
MergeOutput(dir, paths, fail) ==
    CopyFragments(dir, paths, 1, fail.k - 1) \o SubSeq(dir[paths[fail.k]].data, 1, fail.n)

\* lines 203-226: merge_files from its call to its end, for the base name f;
\* fails says whether a read may fail
MergeBegin(dir, isDir, outDirOk, fails) ==
    /\ op' = "merge"
    /\ pc' = "done"
    /\ results' = <<>>
    /\ fragDir' = dir
    /\ IF ~isDir
       THEN /\ outcome' = Raised("FileNotFoundError", "fragments directory", 0, <<>>)
            /\ UNCHANGED <<listing, fragment_paths, mergeIdx, outFile>>
       ELSE \E order \in ListingOrders(dir) :
            \E paths \in {FragmentPaths(order, BaseFilename)} :
               /\ listing' = order
               /\ fragment_paths' = paths
               /\ IF paths = <<>>
                  THEN /\ outcome' = Raised("FileNotFoundError", "no fragments", 0, <<>>)
                       /\ mergeIdx' = 0
                       /\ UNCHANGED outFile
                  ELSE IF ~outDirOk
                  THEN /\ outcome' = Raised("OSError", "makedirs", 0, <<>>)
                       /\ mergeIdx' = 0
                       /\ UNCHANGED outFile
                  ELSE \E fail \in (IF fails THEN ReadFailures(dir, paths)
                                             ELSE {NoReadFailure}) :
                       IF fail.k = 0
                       THEN /\ outcome' = Returned(0)
                            /\ mergeIdx' = Len(paths)
                            /\ outFile' = File(CopyFragments(dir, paths, 1, Len(paths)))
                       ELSE /\ outcome' = Raised("IOError", "fragment read", 0,
                                                 <<paths[fail.k]>>)
                            /\ mergeIdx' = fail.k - 1
                            /\ outFile' = File(MergeOutput(dir, paths, fail))
    /\ UNCHANGED <<cmd, firstRun, inFile, fragSize, readPos, file_number, tasks, usbDir,
                   container, password, source_folders, archived, destDir>>

\* merge_files on the directory split_file filled; every read succeeds
Merge ==
    /\ pc = "done"
    /\ op = "split"
    /\ outcome.kind = "returned"
    /\ MergeBegin(fragDir, TRUE, TRUE, FALSE)

\* merge_files on the directory split_file filled; a read fails
MergeReadFails ==
    /\ pc = "done"
    /\ op = "split"
    /\ outcome.kind = "returned"
    /\ MergeBegin(fragDir, TRUE, TRUE, TRUE)

\* merge_files called on its own
MergeAlone(dir, isDir, outDirOk) ==
    /\ pc = "idle"
    /\ MergeBegin(dir, isDir, outDirOk, FALSE)

(***************************************************************************)
(* The single-worker schedule without failures: the units run one after    *)
(* the other in dispatch order and each of them completes.                 *)
(***************************************************************************)
\* the units from..to run on run.fs, the directory, and run.tasks; a unit
\* that raises ends the batch
RECURSIVE RunInOrder(_, _, _)
RunInOrder(run, from, to) ==
    IF from > to THEN run
    ELSE IF from = to
    THEN LET t == run.tasks[from]
             io == IOSuccess(t.arg)
             r == write_fragment(t.arg, t.id, io, run.fs)
         IN [fs |-> r.fs,
             tasks |-> [run.tasks EXCEPT ![from].st = UnitState(r, io),
                                         ![from].ret = IF r.raised THEN NoRet ELSE r.ret]]
    ELSE LET first == RunInOrder(run, from, (from + to) \div 2)
         IN IF DaskRaised(first.tasks) THEN first
            ELSE RunInOrder(first, (from + to) \div 2 + 1, to)

\* lines 167-197 under that schedule: split_file from its call to its end
SplitSequential(file, size, dir) ==
    /\ pc = "idle"
    /\ op' = "split"
    /\ pc' = "done"
    /\ inFile' = file
    /\ fragSize' = size
    /\ \E rd \in {ReadLoop(file, size)} :
       \E run \in {RunInOrder([fs |-> dir, tasks |-> rd.tasks], 1, Len(rd.tasks))} :
       LET res == DaskResults(run.tasks)
       IN /\ readPos' = rd.pos
          /\ file_number' = rd.file_number
          /\ tasks' = run.tasks
          /\ fragDir' = run.fs
          /\ results' = IF rd.tasks # <<>> /\ ~DaskRaised(run.tasks) THEN res ELSE <<>>
          /\ outcome' = IF rd.tasks = <<>> THEN Returned(0)
                        ELSE IF DaskRaised(run.tasks)
                        THEN Raised("Exception", "unit raised", 0, <<>>)
                        ELSE IF NumFailed(res) > 0
                        THEN Raised("IOError", "fragment write", NumFailed(res), FailedPaths(res))
                        ELSE Returned(0)
    /\ UNCHANGED <<cmd, firstRun, usbDir, container, password, source_folders, archived, destDir, listing, fragment_paths, mergeIdx, outFile>>

(***************************************************************************)
(* Paths (posixpath).                                                      *)
(***************************************************************************)
Slash == <<"/">>
Dot == <<".">>
DotDot == <<".", ".">>

\* p.split('/') without the empty components
RECURSIVE Components(_)
Components(p) ==
    IF p = <<>> THEN <<>>
    ELSE LET slashes == {i \in 1..Len(p) : p[i] = "/"}
             first == IF slashes = {} THEN Len(p) + 1
                      ELSE CHOOSE i \in slashes : \A j \in slashes : i <= j
             head == SubSeq(p, 1, first - 1)
             rest == SubSeq(p, first + 1, Len(p))
         IN IF head = <<>> THEN Components(rest) ELSE <<head>> \o Components(rest)

\* the loop of os.path.normpath: '.' is dropped, '..' takes back the
\* component before it, is dropped at the root and kept at the start of a
\* relative path
RECURSIVE NormComponents(_, _, _)
NormComponents(comps, new_comps, rooted) ==
    IF comps = <<>> THEN new_comps
    ELSE LET comp == comps[1]
         IN IF comp = Dot THEN NormComponents(Tail(comps), new_comps, rooted)
            ELSE IF comp # DotDot
                    \/ (~rooted /\ new_comps = <<>>)
                    \/ (new_comps # <<>> /\ new_comps[Len(new_comps)] = DotDot)
            THEN NormComponents(Tail(comps), Append(new_comps, comp), rooted)
            ELSE IF new_comps # <<>>
            THEN NormComponents(Tail(comps), SubSeq(new_comps, 1, Len(new_comps) - 1), rooted)
            ELSE NormComponents(Tail(comps), new_comps, rooted)

\* '/'.join(comps)
RECURSIVE JoinComponents(_)
JoinComponents(comps) ==
    IF comps = <<>> THEN <<>>
    ELSE IF Len(comps) = 1 THEN comps[1]
    ELSE comps[1] \o Slash \o JoinComponents(Tail(comps))

IsAbs(p) == p # <<>> /\ p[1] = "/"

\* os.path.normpath
NormPath(p) ==
    LET comps == NormComponents(Components(p), <<>>, IsAbs(p))
    IN IF IsAbs(p) THEN Slash \o JoinComponents(comps)
       ELSE IF comps = <<>> THEN Dot ELSE JoinComponents(comps)

\* os.path.abspath of an absolute path
AbsPath(p) == NormPath(p)

\* os.path.join(a, b) for a relative b
JoinPath(a, b) == IF a = <<>> \/ a[Len(a)] = "/" THEN a \o b ELSE a \o Slash \o b

\* len(os.path.commonprefix([start_list, path_list]))
RECURSIVE CommonLen(_, _)
CommonLen(a, b) ==
    IF a = <<>> \/ b = <<>> \/ a[1] # b[1] THEN 0 ELSE 1 + CommonLen(Tail(a), Tail(b))

\* os.path.relpath(path, start)
RelPath(path, start) ==
    LET start_list == Components(AbsPath(start))
        path_list == Components(AbsPath(path))
        i == CommonLen(start_list, path_list)
        rel_list == [k \in 1..(Len(start_list) - i) |-> DotDot]
                        \o SubSeq(path_list, i + 1, Len(path_list))
    IN IF rel_list = <<>> THEN Dot ELSE JoinComponents(rel_list)

(***************************************************************************)
(* create_backup_archive                                                   *)
(***************************************************************************)
IsDir(tree, p) == p \in DOMAIN tree /\ tree[p].kind = "dir"

\* the names of a set in ascending order
Ascending(S) == Reverse(Descending(S))

RECURSIVE Walk(_, _)
RECURSIVE WalkAll(_, _)
\* os.walk(root), top down: the files of root, then its subdirectories; the
\* names of a directory are taken in ascending order
Walk(tree, root) ==
    LET below == {x \in DOMAIN tree : x # root /\ DirName(x) = root}
        files == Ascending({BaseName(x) : x \in {y \in below : tree[y].kind = "file"}})
        dirs == Ascending({x \in below : tree[x].kind = "dir"})
    IN [k \in 1..Len(files) |-> JoinPath(root, files[k])] \o WalkAll(tree, dirs)

WalkAll(tree, dirs) ==
    IF dirs = <<>> THEN <<>> ELSE Walk(tree, dirs[1]) \o WalkAll(tree, Tail(dirs))

\* lines 11-22: the files below every source folder that is a directory
RECURSIVE get_all_file_paths(_, _)
get_all_file_paths(tree, folders) ==
    IF folders = <<>> THEN <<>>
    ELSE LET abs_folder == AbsPath(folders[1])
         IN (IF IsDir(tree, abs_folder) THEN Walk(tree, abs_folder) ELSE <<>>)
                \o get_all_file_paths(tree, Tail(folders))

\* a match test that accepts every source folder
MatchesEveryFolder(filepath, sf) == TRUE

\* line 55: os.path.abspath(filepath).startswith(sf)
MatchesFolder(filepath, sf) == StartsWith(AbsPath(filepath), sf)

\* lines 52-57: the longest source folder that matches, the first of them
\* among folders of the same length; <<>> stands for None
RECURSIVE MatchedSourceFolder(_, _, _)
MatchedSourceFolder(filepath, folders, matched_source_folder) ==
    IF folders = <<>> THEN matched_source_folder
    ELSE LET sf == AbsPath(folders[1])
         IN IF MatchesFolder(filepath, sf)
               /\ (matched_source_folder = <<>> \/ Len(sf) > Len(matched_source_folder))
            THEN MatchedSourceFolder(filepath, Tail(folders), sf)
            ELSE MatchedSourceFolder(filepath, Tail(folders), matched_source_folder)

\* lines 59-64
Arcname(filepath, matched_source_folder) ==
    IF matched_source_folder # <<>>
    THEN RelPath(filepath, DirName(matched_source_folder))
    ELSE BaseName(filepath)

RECURSIVE LStripSlashes(_)
LStripSlashes(p) == IF p # <<>> /\ p[1] = "/" THEN LStripSlashes(Tail(p)) ELSE p

\* a member name that keeps the last component of the arcname only
ZipNameFlat(arcname) == BaseName(arcname)

\* ZipInfo.from_file: the arcname is normalised and loses its leading slashes
ZipName(arcname) == LStripSlashes(NormPath(arcname))

\* lines 50-66: what the loop works out for each file
ArchivedFiles(tree, folders) ==
    LET all_files_to_backup == get_all_file_paths(tree, folders)
    IN [k \in 1..Len(all_files_to_backup) |->
           LET filepath == all_files_to_backup[k]
               matched == MatchedSourceFolder(filepath, folders, <<>>)
           IN [filepath |-> filepath,
               matched_source_folder |-> matched,
               arcname |-> Arcname(filepath, matched)]]

\* lines 24-69: create_backup_archive from its call to its end
CreateBegin(tree, folders, compress_type, pwd, outDirOk) ==
    /\ op' = "create"
    /\ pc' = "done"
    /\ source_folders' = folders
    /\ IF compress_type # "zip"
       THEN /\ outcome' = Raised("NotImplementedError", "compress type", 0, <<>>)
            /\ UNCHANGED <<container, archived>>
       ELSE IF ~outDirOk
       THEN /\ outcome' = Raised("OSError", "makedirs", 0, <<>>)
            /\ UNCHANGED <<container, archived>>
       ELSE \E written \in {ArchivedFiles(tree, folders)} :
            /\ archived' = written
            /\ container' = [k \in 1..Len(written) |->
                                [name |-> ZipName(written[k].arcname),
                                 data |-> tree[written[k].filepath].data,
                                 key |-> pwd]]
            /\ outcome' = Returned(0)
    /\ UNCHANGED <<inFile, fragSize, readPos, file_number, tasks, fragDir, usbDir, password,
                   destDir, results, listing, fragment_paths, mergeIdx, outFile>>

\* create_backup_archive called on its own
Create(tree, folders, compress_type, pwd, outDirOk) ==
    /\ pc = "idle"
    /\ CreateBegin(tree, folders, compress_type, pwd, outDirOk)
    /\ UNCHANGED <<cmd, firstRun>>

\* restore_from_archive called on the archive create_backup_archive wrote
RestoreCreated(pwd, dest) ==
    /\ pc = "done"
    /\ op = "create"
    /\ outcome.kind = "returned"
    /\ RestoreBegin("ok", container, pwd, dest)
    /\ UNCHANGED firstRun

\* the single worker takes the next unit in dispatch order
UnitStartInOrder(i) ==
    /\ NumRunning = 0
    /\ IF i = 1 THEN TRUE ELSE tasks[i - 1].st # "Pending"
    /\ UnitStart(i)

\* the worker runs extract_single_member to its end and meets no I/O failure
ExtractUnitOk(i) ==
    /\ tasks[i].fn = "extract_single_member"
    /\ ExtractUnit(i, IOSuccess(Payload(tasks[i])))

(***************************************************************************)
(* Inputs.                                                                 *)
(***************************************************************************)
SeqsUpTo(S, n) == UNION {[1..k -> S] : k \in 0..n}

Files == SeqsUpTo(Bytes, MaxLen)

Sizes == 1..MaxSize

\* fragment sizes a caller of split_file may pass that are not positive
NonPositiveSizes == (0 - MaxSize)..0

\* fragments a previous run left in the fragments directory
StaleDir ==
    [x \in {FragmentName(BaseFilename, k) : k \in 1..(MaxLen + 1)} |-> File(<<1, 1>>)]

\* a directory that holds a fragment of the file f.n
ForeignDir == [x \in {<<"f", ".", "n">> \o DotPart \o Format03d(1)} |-> File(<<1>>)]

\* a directory without any fragment
OtherDir == [x \in {<<"n">>, <<"f">> \o DotPart} |-> File(<<0>>)]

FragDirs == {EmptyDir, StaleDir, ForeignDir}

\* what the output path of merge_files may hold before the call
OutFiles == {Absent, File(<<1, 0>>)}

\* directories handed to copy_fragments_to_usb
PartOne == FragmentName(BaseFilename, 1)

PartTwo == FragmentName(BaseFilename, 2)

SourceDirs ==
    {EmptyDir,
     [x \in {PartOne, PartTwo} |-> IF x = PartOne THEN File(<<0, 1>>) ELSE File(<<1>>)],
     [x \in {PartOne, <<"n">>} |-> File(<<0>>)],
     [x \in {<<"n">>, <<"d">> \o DotPart} |-> IF x = <<"n">> THEN File(<<0>>) ELSE Directory],
     [x \in {PartOne, PartTwo, <<"d">> \o DotPart} |->
         IF x = PartOne THEN File(<<0>>)
         ELSE IF x = PartTwo THEN File(<<1>>) ELSE Directory]}

UsbDirs == {EmptyDir, [x \in {PartOne} |-> File(<<1, 1>>)]}

\* archives handed to restore_from_archive
Member(name, data) == [name |-> name, data |-> data, key |-> NoPassword]

\* a member written with zf.setpassword(RightPassword)
EncryptedMember(name, data) == [name |-> name, data |-> data, key |-> RightPassword]

Containers ==
    {<<>>,
     <<Member(<<"a">>, <<0>>)>>,
     <<Member(<<"d", "/">>, <<>>), Member(<<"d", "/", "a">>, <<0, 1>>),
       Member(<<"b">>, <<1>>)>>,
     <<Member(<<"d", "/", "a">>, <<1>>), Member(<<"d", "/", "b">>, <<0>>)>>,
     <<EncryptedMember(<<"a">>, <<0>>)>>,
     <<EncryptedMember(<<"d", "/", "a">>, <<1>>), EncryptedMember(<<"b">>, <<0, 1>>)>>}

DestDirs == {EmptyDir, [x \in {<<"d">>} |-> File(<<1>>)], [x \in {<<"b">>} |-> File(<<0>>)]}

\* the tree create_backup_archive reads: /a holds f and the directories b
\* and bd, /d holds a directory that is named a as well
SourceTree ==
    (<<"/", "a">> :> Directory)
    @@ (<<"/", "a", "/", "f">> :> File(<<0>>))
    @@ (<<"/", "a", "/", "b">> :> Directory)
    @@ (<<"/", "a", "/", "b", "/", "t">> :> File(<<1>>))
    @@ (<<"/", "a", "/", "b", "d">> :> Directory)
    @@ (<<"/", "a", "/", "b", "d", "/", "n">> :> File(<<0, 1>>))
    @@ (<<"/", "d">> :> Directory)
    @@ (<<"/", "d", "/", "a">> :> Directory)
    @@ (<<"/", "d", "/", "a", "/", "f">> :> File(<<1, 1>>))

\* source folders as the caller may write them: directories of the tree,
\* one with a trailing slash, one through '.', a file and a missing path
FolderChoices ==
    {<<"/", "a">>, <<"/", "a", "/", "b">>, <<"/", "a", "/", "b", "/">>,
     <<"/", "a", "/", "b", "d">>, <<"/", "d">>, <<"/", "d", "/", ".", "/", "a">>,
     <<"/", "a", "/", "f">>, <<"/", "n">>}

MaxFolders == 2

SourceSets == SeqsUpTo(FolderChoices, MaxFolders)

\* the long inputs: one byte per fragment, every byte differs from the next
MidFile == [i \in 1..MidLen |-> i % 256]

BigFile == [i \in 1..BigLen |-> i % 256]

(***************************************************************************)
(* Specification.                                                          *)
(***************************************************************************)
Init ==
    /\ cmd = NoCmd
    /\ firstRun = NoRun
    /\ pc = "idle"
    /\ op = "none"
    /\ inFile = <<>>
    /\ fragSize = 0
    /\ readPos = 0
    /\ file_number = 0
    /\ tasks = <<>>
    /\ fragDir = EmptyDir
    /\ usbDir = EmptyDir
    /\ container = <<>>
    /\ password = NoPassword
    /\ source_folders = <<>>
    /\ archived = <<>>
    /\ destDir = EmptyDir
    /\ results = <<>>
    /\ outcome = NoOutcome
    /\ listing = <<>>
    /\ fragment_paths = <<>>
    /\ mergeIdx = 0
    /\ outFile = Absent

Next ==
    \/ \E file \in Files, size \in Sizes, dir \in FragDirs : SplitDispatch(file, size, dir)
    \/ \E i \in 1..Len(tasks) : UnitStart(i)
    \/ \E i \in 1..Len(tasks) : \E io \in IOOutcomes(Payload(tasks[i])) :
           WriteFragmentUnit(i, io)
    \/ SplitFinish
    \/ \E src \in SourceDirs, srcIsDir \in BOOLEAN, usb \in UsbDirs, mkdirOk \in BOOLEAN :
           \E order \in ListingOrders(src) : CopyStart(src, srcIsDir, usb, mkdirOk, order)
    \/ \E i \in 1..Len(tasks) : \E io \in IOOutcomes(Payload(tasks[i])) :
           CopyFragmentUnit(i, io)
    \/ CopyFinish
    \/ \E zip \in {"ok", "missing", "badzip"}, members \in Containers, pwd \in Passwords,
          dest \in DestDirs :
           RestoreStart(zip, members, pwd, dest)
    \/ \E i \in 1..Len(tasks) : \E io \in IOOutcomes(Payload(tasks[i])) :
           ExtractUnit(i, io)
    \/ RestoreFinish
    \/ \E libs \in BOOLEAN, exists \in BOOLEAN, service \in BOOLEAN :
           UploadStart(libs, exists, service)
    \/ \E i \in 1..Len(tasks) : \E net \in UploadOutcomes : UploadUnit(i, net)
    \/ UploadFinish

Spec == Init /\ [][Next]_vars

\* every unit of the batch returned success
AllSucceeded == \A i \in 1..Len(tasks) : tasks[i].st = "Succeeded"

\* the operation has returned and is called again: what it left is kept
RunAgain(dir) ==
    /\ pc = "done"
    /\ outcome.kind = "returned"
    /\ ~firstRun.again
    /\ firstRun' = [again |-> TRUE, ok |-> AllSucceeded, dir |-> dir]
    /\ UNCHANGED cmd

\* split_file called a second time with the same file, size and directory
SplitAgain ==
    /\ op = "split"
    /\ RunAgain(fragDir)
    /\ SplitBegin(inFile, fragSize, fragDir)

\* copy_fragments_to_usb called a second time with the same directories
CopyAgain ==
    /\ op = "copy"
    /\ RunAgain(usbDir)
    /\ \E order \in ListingOrders(fragDir) : CopyBegin(fragDir, TRUE, usbDir, TRUE, order)

\* restore_from_archive called a second time with the same archive,
\* password and destination
RestoreAgain ==
    /\ op = "restore"
    /\ RunAgain(destDir)
    /\ RestoreBegin("ok", container, password, destDir)

NextAgain ==
    \/ Next
    \/ SplitAgain
    \/ CopyAgain
    \/ RestoreAgain

SpecAgain == Init /\ [][NextAgain]_vars

(***************************************************************************)
(* The backup command (src/main.py).                                       *)
(***************************************************************************)
\* the variables of the operations, without the command's own
opVars == <<pc, op, inFile, fragSize, readPos, file_number, tasks, fragDir, usbDir,
            container, password, source_folders, archived, destDir, results, outcome,
            listing, fragment_paths, mergeIdx, outFile>>

\* <output_name>.zip
BackupFilename == <<"f">>

\* copy_to_local_disk, lines 70-80: a missing source is FileNotFoundError,
\* any failure of makedirs or copy2 becomes IOError
CopyToLocalDisk(data, exists, io, dest) ==
    /\ op' = "local_copy"
    /\ pc' = "done"
    /\ tasks' = <<>>
    /\ IF ~exists
       THEN /\ outcome' = Raised("FileNotFoundError", "source file", 0, <<>>)
            /\ UNCHANGED usbDir
       ELSE /\ usbDir' = WriteBytes(dest, BackupFilename, data, io)
            /\ outcome' = IF io.kind = "ok" THEN Returned(0)
                          ELSE Raised("IOError", "local copy", 0, <<>>)
    /\ UNCHANGED <<inFile, fragSize, readPos, file_number, fragDir, container, password,
                   source_folders, archived, destDir, results, listing, fragment_paths,
                   mergeIdx, outFile>>

\* the directories the command may name as sources: click accepts only
\* existing directories and at least one of them
CmdSourceSets == {<< <<"/", "a">> >>, << <<"/", "d">>, <<"/", "a", "/", "b">> >>}

\* the bytes of the archive file the command wrote: never empty
ArchiveFiles == {<<1>>, <<0, 1>>}

StorageTypes == {"local", "gdrive", "usb"}

StoreOps == {"local_copy", "upload", "copy"}

\* the command splits the archive
Fragmenting == cmd.storage_type = "usb" /\ cmd.fragment_size > 0

\* the finished stage and how it ended
StageRecord == [op |-> op, kind |-> outcome.kind]

\* the except clause of lines 108-112: the exception of a stage is printed
\* and the command exits with 1
BackupExits(code) ==
    /\ cmd' = [cmd EXCEPT !.stages = Append(cmd.stages, StageRecord), !.exit = code]
    /\ UNCHANGED opVars

\* lines 52-77: the options are tested, then create_backup_archive runs
BackupStart(sources, encrypt, pwd, storage_type, hasStoragePath, fragment_size, outDirOk) ==
    /\ pc = "idle"
    /\ cmd = NoCmd
    /\ UNCHANGED firstRun
    /\ IF (encrypt /\ pwd = NoPassword) \/ (storage_type = "gdrive" /\ ~hasStoragePath)
       THEN /\ cmd' = [cmd EXCEPT !.storage_type = storage_type, !.exit = 1]
            /\ UNCHANGED opVars
       ELSE /\ cmd' = [cmd EXCEPT !.storage_type = storage_type,
                                  !.fragment_size = fragment_size]
            /\ CreateBegin(SourceTree, sources, "zip",
                           IF encrypt THEN pwd ELSE NoPassword, outDirOk)

\* lines 94-106: the stage that stores the archive or its fragments
BackupStore(data) ==
    IF cmd.storage_type = "local"
    THEN \E dest \in UsbDirs : \E io \in IOOutcomes(data) :
             CopyToLocalDisk(data, TRUE, io, dest)
    ELSE IF cmd.storage_type = "gdrive"
    THEN \E service \in BOOLEAN : UploadBegin(TRUE, TRUE, service)
    ELSE IF Fragmenting
    THEN \E usb \in UsbDirs, mkdirOk \in BOOLEAN : \E order \in ListingOrders(fragDir) :
             CopyBegin(fragDir, TRUE, usb, mkdirOk, order)
    ELSE \E dest \in UsbDirs : \E io \in IOOutcomes(data) :
             CopyToLocalDisk(data, TRUE, io, dest)

\* lines 78-106 after create_backup_archive: its exception ends the
\* command, otherwise the archive is split (usb with a fragment size) or
\* stored; the archive file is never empty
BackupAfterCreate ==
    /\ cmd.storage_type # "none"
    /\ cmd.exit = NoExit
    /\ pc = "done"
    /\ op = "create"
    /\ UNCHANGED firstRun
    /\ IF outcome.kind # "returned"
       THEN BackupExits(1)
       ELSE /\ cmd' = [cmd EXCEPT !.stages = Append(cmd.stages, StageRecord)]
            /\ \E data \in ArchiveFiles :
                 IF Fragmenting
                 THEN SplitBegin(data, cmd.fragment_size, EmptyDir)
                 ELSE BackupStore(data)

\* a command that stores the fragments whatever split_file did
BackupAfterSplitGoesOn ==
    /\ cmd.storage_type # "none"
    /\ cmd.exit = NoExit
    /\ pc = "done"
    /\ op = "split"
    /\ UNCHANGED firstRun
    /\ cmd' = [cmd EXCEPT !.stages = Append(cmd.stages, StageRecord)]
    /\ BackupStore(inFile)

\* lines 86-106 after split_file: its exception ends the command,
\* otherwise the fragments are copied
BackupAfterSplit ==
    /\ cmd.storage_type # "none"
    /\ cmd.exit = NoExit
    /\ pc = "done"
    /\ op = "split"
    /\ UNCHANGED firstRun
    /\ IF outcome.kind # "returned"
       THEN BackupExits(1)
       ELSE /\ cmd' = [cmd EXCEPT !.stages = Append(cmd.stages, StageRecord)]
            /\ BackupStore(inFile)

\* lines 106-112 after the storing stage: the command ends
BackupAfterStore ==
    /\ cmd.storage_type # "none"
    /\ cmd.exit = NoExit
    /\ pc = "done"
    /\ op \in StoreOps
    /\ UNCHANGED firstRun
    /\ BackupExits(IF outcome.kind = "returned" THEN 0 ELSE 1)

NextCmd ==
    \/ \E sources \in CmdSourceSets, encrypt \in BOOLEAN, pwd \in {NoPassword, RightPassword},
          storage_type \in StorageTypes, hasStoragePath \in BOOLEAN,
          fragment_size \in 0..MaxSize, outDirOk \in BOOLEAN :
           BackupStart(sources, encrypt, pwd, storage_type, hasStoragePath, fragment_size,
                       outDirOk)
    \/ BackupAfterCreate
    \/ \E i \in 1..Len(tasks) : UnitStart(i)
    \/ \E i \in 1..Len(tasks) : \E io \in IOOutcomes(Payload(tasks[i])) :
           WriteFragmentUnit(i, io)
    \/ SplitFinish
    \/ BackupAfterSplit
    \/ \E i \in 1..Len(tasks) : \E io \in IOOutcomes(Payload(tasks[i])) :
           CopyFragmentUnit(i, io)
    \/ CopyFinish
    \/ \E i \in 1..Len(tasks) : \E net \in UploadOutcomes : UploadUnit(i, net)
    \/ UploadFinish
    \/ BackupAfterStore

SpecCmd == Init /\ [][NextCmd]_vars

\* a free worker takes a unit that is ready
UnitTaken == \E i \in 1..Len(tasks) : UnitStart(i)

\* a running unit comes to its end
UnitEnds ==
    \E i \in 1..Len(tasks) :
        \/ \E io \in IOOutcomes(Payload(tasks[i])) :
              WriteFragmentUnit(i, io) \/ CopyFragmentUnit(i, io) \/ ExtractUnit(i, io)
        \/ \E net \in UploadOutcomes : UploadUnit(i, net)

\* the caller goes on when compute hands control back
ComputeReturns == SplitFinish \/ CopyFinish \/ RestoreFinish \/ UploadFinish

\* the threads of the pool and the calling thread are scheduled fairly, and
\* a blocking call of a unit comes back (with its result or an error)
SpecFair == Spec /\ WF_vars(UnitTaken) /\ WF_vars(UnitEnds) /\ WF_vars(ComputeReturns)

NextSeq ==
    \/ \E file \in Files \cup {MidFile}, size \in Sizes, dir \in FragDirs :
           SplitSequential(file, size, dir)
    \/ \E file \in Files, size \in NonPositiveSizes, dir \in FragDirs :
           SplitSequential(file, size, dir)
    \/ Merge
    \/ MergeReadFails
    \/ \E dir \in FragDirs \cup {OtherDir}, outDirOk \in BOOLEAN : MergeAlone(dir, TRUE, outDirOk)
    \/ MergeAlone(EmptyDir, FALSE, TRUE)

\* the output path may exist before anything is called
InitSeq ==
    \E out \in OutFiles :
        /\ cmd = NoCmd
        /\ firstRun = NoRun
        /\ pc = "idle"
        /\ op = "none"
        /\ inFile = <<>>
        /\ fragSize = 0
        /\ readPos = 0
        /\ file_number = 0
        /\ tasks = <<>>
        /\ fragDir = EmptyDir
        /\ usbDir = EmptyDir
        /\ container = <<>>
        /\ password = NoPassword
        /\ source_folders = <<>>
        /\ archived = <<>>
        /\ destDir = EmptyDir
        /\ results = <<>>
        /\ outcome = NoOutcome
        /\ listing = <<>>
        /\ fragment_paths = <<>>
        /\ mergeIdx = 0
        /\ outFile = out

SpecSeq == InitSeq /\ [][NextSeq]_vars

\* the same schedule on files that have a first byte and an empty fragments
\* directory, with the input that needs BigLen fragments
NextBig ==
    \/ \E file \in (Files \ {<<>>}) \cup {MidFile}, size \in Sizes :
           SplitSequential(file, size, EmptyDir)
    \/ SplitSequential(BigFile, 1, EmptyDir)
    \/ Merge

SpecBig == Init /\ [][NextBig]_vars

\* create_backup_archive, then restore_from_archive on its archive with one
\* worker and without I/O failures
NextArc ==
    \/ \E folders \in SourceSets, compress_type \in {"zip", "tar"},
          pwd \in {NoPassword, RightPassword}, outDirOk \in BOOLEAN :
           Create(SourceTree, folders, compress_type, pwd, outDirOk)
    \/ \E pwd \in Passwords : RestoreCreated(pwd, EmptyDir)
    \/ \E i \in 1..Len(tasks) : UnitStartInOrder(i)
    \/ \E i \in 1..Len(tasks) : ExtractUnitOk(i)
    \/ RestoreFinish

SpecArc == Init /\ [][NextArc]_vars

(***************************************************************************)
(* Properties of a batch under every interleaving (Spec).                  *)
(***************************************************************************)
Units == 1..Len(tasks)

\* the operation of the unit failed, whether the unit returned or raised it
OperationFailed(t) == t.st \in {"Failed", "Raised"}

FailedUnits == {i \in Units : OperationFailed(tasks[i])}

Unfinished(t) == t.st \in {"Pending", "Running"}

\* C1: a unit that fails does not prevent a sibling from running: while the
\* batch is computed a pending sibling can still be taken by a free worker,
\* the operation cannot end before the siblings have finished, and when the
\* operation has ended every sibling has Succeeded or Failed.
C1_FailedUnitDoesNotStopSiblings ==
    \A i \in FailedUnits :
        /\ \A j \in Units \ {i} :
              (pc = "compute" /\ tasks[j].st = "Pending" /\ NumRunning < NumWorkers)
                  => ENABLED UnitStart(j)
        /\ pc = "done" => \A j \in Units \ {i} : tasks[j].st \in Terminal

\* a unit failed and a sibling dispatched after it ran to success
C1_Witness ==
    /\ pc = "done"
    /\ \E i, j \in Units : i < j /\ tasks[i].st = "Failed" /\ tasks[j].st = "Succeeded"
    /\ \E i, j \in Units : i > j /\ tasks[i].st = "Failed" /\ tasks[j].st = "Succeeded"

BatchFinished == pc = "done" /\ op \in {"split", "restore", "copy"} /\ tasks # <<>>

\* C2: when a batch finishes the results hold one (identifier, success)
\* entry per dispatched unit, under the identifier of that unit, success is
\* false exactly for the units whose operation failed, and the reported
\* failure count is the number of those units.
C2_ResultsMatchUnits ==
    BatchFinished =>
        /\ Len(results) = Len(tasks)
        /\ \A i \in Units :
              /\ results[i].id = tasks[i].id
              /\ results[i].ok = ~OperationFailed(tasks[i])
        /\ outcome.num_failed = Cardinality(FailedUnits)
        /\ outcome.kind = "IOError" =>
              {outcome.names[k] : k \in 1..Len(outcome.names)}
                  = {tasks[i].id : i \in FailedUnits}

\* one unit of at least three failed and the one failure is reported
C2_Witness ==
    /\ BatchFinished
    /\ Len(tasks) >= 3
    /\ Cardinality(FailedUnits) = 1
    /\ outcome.num_failed = 1
    /\ \E i \in Units : ~results[i].ok

\* C3: split, restore and copy do not read the results, report an outcome
\* or return while a unit they dispatched is Pending or Running.
C3_NoOutcomeBeforeUnitsFinish ==
    (results # <<>> \/ outcome.kind # "none" \/ pc = "done")
        => \A i \in Units : ~Unfinished(tasks[i])

\* the copy waited for two or more units and then read their results
C3_Witness ==
    /\ op = "copy"
    /\ pc = "done"
    /\ Len(tasks) >= 2
    /\ Len(results) = Len(tasks)

\* the k-th block of size bytes of f
Block(f, size, k) == SubSeq(f, (k - 1) * size + 1, Min(k * size, Len(f)))

\* C6: in every state of a split, whatever units have completed so far, the
\* k-th dispatched unit owns fragment number k, a completed unit left in
\* that fragment the k-th block of the input, no two units own the same
\* fragment, and the fragments of a split that returned cover the input.
C6_FragmentKHoldsBlockK ==
    op = "split" =>
        /\ \A k \in Units :
              /\ tasks[k].id = FragmentName(BaseFilename, k)
              /\ tasks[k].st = "Succeeded" =>
                    /\ tasks[k].id \in DOMAIN fragDir
                    /\ fragDir[tasks[k].id] = File(Block(inFile, fragSize, k))
        /\ \A j, k \in Units : j # k => tasks[j].id # tasks[k].id
        /\ (pc = "done" /\ outcome.kind = "returned" /\ fragSize > 0) =>
              /\ Len(tasks) * fragSize >= Len(inFile)
              /\ (Len(tasks) - 1) * fragSize < Len(inFile)

\* the second fragment was written before the first unit was started, over
\* a fragment an earlier run had left
C6_Witness ==
    /\ op = "split"
    /\ Len(tasks) >= 3
    /\ tasks[1].st = "Pending"
    /\ tasks[2].st = "Succeeded"
    /\ tasks[3].st = "Running"
    /\ fragDir[FragmentName(BaseFilename, 2)] = File(Block(inFile, fragSize, 2))
    /\ FragmentName(BaseFilename, 1) \in DOMAIN fragDir
    /\ fragDir[FragmentName(BaseFilename, 1)] # File(Block(inFile, fragSize, 1))

\* the identifiers of the failed units, in dispatch order
FailedIds ==
    LET failed == SelectSeq(tasks, OperationFailed)
    IN [i \in 1..Len(failed) |-> failed[i].id]

\* C8: split ends with the fragment-write error exactly when one of its
\* units failed, the error names exactly the fragments whose write failed,
\* and split returns when no unit failed.
C8_SplitFatalIffUnitFailed ==
    (op = "split" /\ pc = "done") =>
        /\ (outcome.kind = "IOError" /\ outcome.what = "fragment write") <=> FailedUnits # {}
        /\ FailedUnits # {} => outcome.names = FailedIds
        /\ FailedUnits = {} => outcome = Returned(0)

\* split raised for two failed fragments out of three or more
C8_Witness ==
    /\ op = "split"
    /\ pc = "done"
    /\ outcome.kind = "IOError"
    /\ Len(outcome.names) = 2
    /\ Len(tasks) >= 3

\* the listing was made: the source is a directory and the target exists
CopyAttempted == op = "copy" /\ pc = "done" /\ outcome.what \notin {"source directory", "target directory"}

\* C9: the copy of the fragments ends with the hard failure exactly when a
\* copy unit failed, the failure names exactly the fragments whose copy
\* failed, and a copy that returns has left every fragment in the target.
C9_CopyFatalIffUnitFailed ==
    CopyAttempted =>
        /\ (outcome.kind = "IOError" /\ outcome.what = "fragment copy") <=> FailedUnits # {}
        /\ FailedUnits # {} => outcome.names = FailedIds
        /\ outcome.kind = "returned" =>
              \A name \in DOMAIN fragDir :
                  IsFragmentToCopy(fragDir, name) =>
                      name \in DOMAIN usbDir /\ usbDir[name] = fragDir[name]

\* a copy of two fragments raised for the one that failed after the other
\* had reached the target
C9_Witness ==
    /\ CopyAttempted
    /\ Len(tasks) = 2
    /\ outcome.kind = "IOError"
    /\ Len(outcome.names) = 1
    /\ \E i \in Units : tasks[i].st = "Succeeded" /\ usbDir[tasks[i].id] = fragDir[tasks[i].arg]

\* C10: a restore that dispatched its extract units returns normally
\* whatever number of them failed; the failures only set the count of the
\* warning.
C10_RestoreCompletesDespiteFailures ==
    (op = "restore" /\ pc = "done" /\ tasks # <<>>) =>
        /\ outcome.kind = "returned"
        /\ outcome.num_failed = Cardinality(FailedUnits)

\* every unit of a restore of two or more members failed and restore returned
C10_Witness ==
    /\ op = "restore"
    /\ pc = "done"
    /\ Len(tasks) >= 2
    /\ \A i \in Units : tasks[i].st = "Failed"
    /\ outcome.kind = "returned"

(***************************************************************************)
(* Properties of split followed by merge_files (SpecSeq, SpecBig).         *)
(***************************************************************************)
\* C4: split followed by merge of the same base name leaves in the output
\* exactly the bytes of the file that was split.
C4_SplitMergeRoundTrip ==
    (op = "merge" /\ pc = "done") =>
        /\ outcome.kind = "returned"
        /\ outFile = File(inFile)

\* the files merge_files picked are the fragments 1..n of the base name
IsFragmentSet ==
    {fragment_paths[k] : k \in 1..Len(fragment_paths)}
        = {FragmentName(BaseFilename, k) : k \in 1..Len(fragment_paths)}

\* the bytes of the fragments 1..k of the directory, in index order
RECURSIVE ConcatFragments(_)
ConcatFragments(k) ==
    IF k = 0 THEN <<>>
    ELSE ConcatFragments(k - 1) \o fragDir[FragmentName(BaseFilename, k)].data

\* C5: whatever order the listing had, merge_files takes the fragments
\* 1..n of a file in ascending order of their number and the output is
\* their concatenation in that order.
C5_MergeInIndexOrder ==
    (op = "merge" /\ fragment_paths # <<>> /\ IsFragmentSet) =>
        /\ \A k \in 1..Len(fragment_paths) :
              fragment_paths[k] = FragmentName(BaseFilename, k)
        /\ outcome.kind = "returned" =>
              /\ mergeIdx = Len(fragment_paths)
              /\ outFile = File(ConcatFragments(Len(fragment_paths)))

\* twelve or more fragments listed from the last to the first were merged
C5_Witness ==
    /\ op = "merge"
    /\ pc = "done"
    /\ outcome.kind = "returned"
    /\ Len(fragment_paths) >= 12
    /\ IsFragmentSet
    /\ \A k \in 1..Len(listing) :
          listing[k] = FragmentName(BaseFilename, Len(listing) + 1 - k)

DigitChars == {DigitChar(d) : d \in 0..9}

\* <basename>.part followed by exactly three digits
IsThreeDigitFragmentName(name) ==
    /\ Len(name) = Len(BaseFilename) + Len(DotPart) + PadWidth
    /\ StartsWith(name, BaseFilename \o DotPart)
    /\ \A i \in (Len(name) - PadWidth + 1)..Len(name) : name[i] \in DigitChars

\* C7: every fragment split writes is named <basename>.part<NNN> with three
\* digits and has an index from 1 to 999.
C7_FragmentNamesThreeDigits ==
    op = "split" =>
        \A k \in Units :
            tasks[k].st = "Succeeded" =>
                /\ IsThreeDigitFragmentName(tasks[k].id)
                /\ tasks[k].id \in DOMAIN fragDir
                /\ k <= PartRange - 1

(***************************************************************************)
(* Properties of restore_from_archive with a password.                     *)
(***************************************************************************)
\* the archive is there and readable, the directories of its members can be
\* made, it holds an encrypted member and the caller gave another password
WrongPasswordGiven ==
    /\ op = "restore"
    /\ outcome.what \notin {"backup file", "bad zip file", "makedirs"}
    /\ password # NoPassword
    /\ \E i \in 1..Len(container) :
          container[i].key # NoPassword /\ container[i].key # password

\* the file members of the archive found below the destination
MembersWritten ==
    {i \in 1..Len(container) :
        /\ ~IsDirEntry(container[i].name)
        /\ container[i].name \in DOMAIN destDir
        /\ destDir[container[i].name] = File(container[i].data)}

\* C11: restore with a wrong password on an encrypted archive fails with an
\* authentication error before any unit is dispatched: no unit leaves
\* Pending, no member content is written and the call ends by raising.
C11_WrongPasswordFailsFast ==
    WrongPasswordGiven =>
        /\ \A i \in Units : tasks[i].st = "Pending"
        /\ MembersWritten = {}
        /\ pc = "done" => outcome.kind = "ValueError"

(***************************************************************************)
(* Properties of create_backup_archive followed by restore (SpecArc).      *)
(***************************************************************************)
\* restore of an archive written without a password, called without a
\* password, has returned
RestoredWithoutPassword ==
    /\ op = "restore"
    /\ pc = "done"
    /\ outcome.kind = "returned"
    /\ password = NoPassword
    /\ \A i \in 1..Len(container) : container[i].key = NoPassword

\* the files found below the destination
RestoredFiles == {x \in DOMAIN destDir : destDir[x].kind = "file"}

\* every enumerated file is found at its arcname with its own bytes and the
\* destination holds as many files as were enumerated
AllFilesRestored ==
    /\ \A k \in 1..Len(archived) :
          /\ archived[k].arcname \in DOMAIN destDir
          /\ destDir[archived[k].arcname] = File(SourceTree[archived[k].filepath].data)
    /\ Cardinality(RestoredFiles) = Len(archived)

\* no two enumerated files were given the same arcname
ArcnamesDistinct ==
    \A i, j \in 1..Len(archived) : i # j => archived[i].arcname # archived[j].arcname

IsAncestorOf(dir, file) ==
    LET d == Components(dir)
        f == Components(file)
    IN Len(d) < Len(f) /\ SubSeq(f, 1, Len(d)) = d

\* the entries of the SourceSet that are directories above file
AncestorEntries(file) ==
    {AbsPath(source_folders[i]) : i \in 1..Len(source_folders)}
        \cap {dir \in DOMAIN SourceTree : IsAncestorOf(dir, file)}

\* the path of file from the last component of dir on
FromParentOf(dir, file) ==
    JoinComponents(SubSeq(Components(file), Len(Components(dir)), Len(Components(file))))

\* C13: the entry used for the arcname of a file is the longest SourceSet
\* entry that is an ancestor directory of the file, and the arcname is the
\* path of the file relative to the parent of that entry.
C13_ArcnameFromLongestAncestor ==
    \A k \in 1..Len(archived) :
        LET file == archived[k].filepath
            used == archived[k].matched_source_folder
        IN /\ used \in AncestorEntries(file)
           /\ \A other \in AncestorEntries(file) : Len(other) <= Len(used)
           /\ archived[k].arcname = FromParentOf(used, file)

\* the path starts with a '..' component
EscapesRoot(path) == Components(path) # <<>> /\ Components(path)[1] = DotDot

\* C14: no arcname create computes starts with a '..' component, and no
\* member is recorded under such a name.
C14_ArcnameNeverEscapes ==
    /\ \A k \in 1..Len(archived) : ~EscapesRoot(archived[k].arcname)
    /\ op = "create" => \A k \in 1..Len(container) : ~EscapesRoot(container[k].name)

\* files were archived from two source folders, one of them two levels down
C14_Witness ==
    /\ op = "create"
    /\ Len(archived) >= 2
    /\ \E i, j \in 1..Len(archived) :
          /\ Len(Components(archived[i].matched_source_folder)) = 1
          /\ Len(Components(archived[j].matched_source_folder)) >= 2

(***************************************************************************)
(* Properties of the error cases of split_file and merge_files.            *)
(***************************************************************************)
\* C15: split called with a fragment size of zero or less fails with an
\* invalid-size error and writes no fragment.
C15_NonPositiveSizeRejected ==
    (op = "split" /\ fragSize <= 0) =>
        /\ tasks = <<>>
        /\ pc = "done" => outcome.kind \notin {"none", "returned"}

\* the operation got as far as building its units and built none
NoUnitsToRun ==
    \/ op = "split" /\ fragSize > 0 /\ inFile = <<>>
    \/ /\ op = "copy"
       /\ outcome.what \notin {"source directory", "target directory"}
       /\ \A name \in DOMAIN fragDir : ~IsFragmentToCopy(fragDir, name)
    \/ /\ op = "restore"
       /\ outcome.what \notin {"backup file", "bad zip file"}
       /\ container = <<>>

\* C16: an operation whose set of units is empty dispatches nothing and
\* completes successfully: split of a zero-length file, restore of an empty
\* archive and copy of a directory without fragments return without error.
C16_EmptyBatchSucceeds ==
    NoUnitsToRun =>
        /\ tasks = <<>>
        /\ pc = "done"
        /\ outcome = Returned(0)
        /\ op = "split" => fragDir \in FragDirs

\* a zero-length file was split into a directory that holds older fragments
C16_Witness ==
    /\ op = "split"
    /\ inFile = <<>>
    /\ fragSize > 0
    /\ fragDir = StaleDir
    /\ pc = "done"
    /\ outcome = Returned(0)

\* the names of the directory that are f.part followed by three digits
ExactFragmentNames(dir) == {x \in DOMAIN dir : IsThreeDigitFragmentName(x)}

\* C17: merge fails with a not-found error when the fragments directory
\* does not exist and when no name in it is <prefix>.part<NNN>, and the
\* output path is then as it was before the call.
C17_MergeNotFoundLeavesOutput ==
    [][(op' = "merge" /\ op # "merge"
          /\ (outcome'.what = "fragments directory" \/ ExactFragmentNames(fragDir') = {}))
        => (outcome'.kind = "FileNotFoundError" /\ outFile' = outFile)]_vars

\* the bytes of the first k fragments merge_files picked, in the order it
\* picked them
RECURSIVE ConcatPaths(_)
ConcatPaths(k) ==
    IF k = 0 THEN <<>> ELSE ConcatPaths(k - 1) \o fragDir[fragment_paths[k]].data

\* the position of the fragment the read error names
FailedFragment == CHOOSE k \in 1..Len(fragment_paths) : <<fragment_paths[k]>> = outcome.names

\* C18: when reading fragment k fails, merge raises a read error that names
\* fragment k and leaves the output in place, holding the fragments before
\* k in order, some first bytes of fragment k and nothing of a later one.
C18_ReadFailureLeavesPrefix ==
    (op = "merge" /\ outcome.what = "fragment read") =>
        /\ outcome.kind = "IOError"
        /\ \E k \in 1..Len(fragment_paths) : <<fragment_paths[k]>> = outcome.names
        /\ mergeIdx = FailedFragment - 1
        /\ outFile.kind = "file"
        /\ \E n \in 0..Len(fragDir[fragment_paths[FailedFragment]].data) :
              outFile.data = ConcatPaths(FailedFragment - 1)
                                 \o SubSeq(fragDir[fragment_paths[FailedFragment]].data, 1, n)

\* the read of a fragment between the first and the last failed after the
\* output had received bytes
C18_Witness ==
    /\ op = "merge"
    /\ outcome.what = "fragment read"
    /\ FailedFragment > 1
    /\ FailedFragment < Len(fragment_paths)
    /\ outFile.kind = "file"
    /\ Len(outFile.data) > 0

(***************************************************************************)
(* Properties of the life of a unit (Spec, SpecFair).                      *)
(***************************************************************************)
\* the unit has come to its end: it returned its result, or its operation
\* failed by an exception that left the unit
Ended == Terminal \cup {"Raised"}

\* a step of a unit from one state to the next
UnitStep(a, b) ==
    \/ a = b
    \/ a = "Pending" /\ b = "Running"
    \/ a = "Running" /\ b \in Ended

\* C19: within a batch a unit only moves from Pending to Running and from
\* Running to Succeeded or Failed: it runs at most once, a unit that has
\* Succeeded or Failed stays as it is and a failed unit is not run again.
C19_UnitsOnlyMoveForward ==
    [][tasks # <<>> =>
          /\ Len(tasks') = Len(tasks)
          /\ \A i \in 1..Len(tasks) :
                /\ tasks'[i].id = tasks[i].id
                /\ UnitStep(tasks[i].st, tasks'[i].st)
                /\ tasks[i].st \in Ended => tasks'[i] = tasks[i]]_vars

\* the batch is over, a unit of it failed and was left as it failed while a
\* sibling ran after it
C19_Witness ==
    /\ pc = "done"
    /\ op = "restore"
    /\ Len(tasks) >= 3
    /\ tasks[1].st = "Failed"
    /\ tasks[2].st = "Succeeded"
    /\ tasks[3].st = "Failed"
    /\ outcome.kind = "returned"

Resolved(t) == t.st \in Ended

\* C20: under fair scheduling every unit of a dispatched batch comes to its
\* end and the operation that dispatched it returns or raises.
C20_BatchTerminates ==
    (pc = "compute") ~>
        (/\ pc = "done"
         /\ outcome.kind # "none"
         /\ \A i \in Units : Resolved(tasks[i]))

\* a batch of three units was computed to its end
C20_Witness ==
    /\ pc = "done"
    /\ Len(tasks) >= 3
    /\ \A i \in Units : Resolved(tasks[i])
    /\ outcome.kind # "none"

(***************************************************************************)
(* Properties of the units a restore builds (Spec).                        *)
(***************************************************************************)
\* the members of the container that are not directory entries
FileMembers == SelectSeq(container, LAMBDA m : ~IsDirEntry(m.name))

\* C21: restore_from_archive builds an extract unit for a member if and
\* only if the member is not a directory entry, so the number of units is
\* the number of members that are not directory entries.
C21_UnitIffNotDirectoryEntry ==
    (op = "restore" /\ tasks # <<>>) =>
        /\ Len(tasks) = Len(FileMembers)
        /\ \A i \in 1..Len(tasks) : tasks[i].id = FileMembers[i].name

(***************************************************************************)
(* Properties of the units of a restore of a created archive (SpecArc).    *)
(***************************************************************************)
\* C22: in a batch no two units write the same destination path, the
\* batch of a restore of a container built by create_backup_archive
\* included.
C22_NoTwoUnitsWriteOnePath ==
    \A i, j \in 1..Len(tasks) : i # j => tasks[i].id # tasks[j].id

(***************************************************************************)
(* Properties of an operation that is run twice (SpecAgain).               *)
(***************************************************************************)
\* the directory the operation writes to
WrittenDir == IF op = "split" THEN fragDir ELSE IF op = "copy" THEN usbDir ELSE destDir

\* C23: when split_file, copy_fragments_to_usb or restore_from_archive is
\* run a second time with the same inputs and every unit succeeds both
\* times, the directory it writes to is left as the first run left it.
C23_SecondRunChangesNothing ==
    (firstRun.again /\ firstRun.ok /\ pc = "done" /\ outcome.kind = "returned"
        /\ AllSucceeded) =>
        WrittenDir = firstRun.dir

\* a restore of several members into a destination that held a file was run
\* twice, every unit succeeding both times
C23_Witness ==
    /\ firstRun.again
    /\ firstRun.ok
    /\ pc = "done"
    /\ op = "restore"
    /\ Len(tasks) >= 2
    /\ AllSucceeded
    /\ outcome.kind = "returned"
    /\ firstRun.dir # EmptyDir

(***************************************************************************)
(* Properties of the upload unit (Spec).                                   *)
(***************************************************************************)
\* C24: every failure inside the upload unit is caught in the unit and
\* returned as a result without a remote id for the unit's name: no
\* exception leaves the unit, and a failed upload ends as the IOError that
\* upload_to_google_drive raises for a result without id.
C24_UploadFailuresAreCaught ==
    op = "upload" =>
        /\ \A i \in 1..Len(tasks) :
              /\ tasks[i].st # "Raised"
              /\ tasks[i].st = "Failed" => tasks[i].ret = [id |-> tasks[i].id, ok |-> FALSE]
        /\ outcome.what # "unit raised"

(***************************************************************************)
(* Properties of the backup command (SpecCmd).                             *)
(***************************************************************************)
\* the stages the options of the command ask for, in their order
ExpectedStages ==
    IF Fragmenting THEN <<"create", "split", "copy">>
    ELSE IF cmd.storage_type = "gdrive" THEN <<"create", "upload">>
    ELSE <<"create", "local_copy">>

\* every fragment of the archive is in the fragments directory
EveryFragmentWritten ==
    \A k \in 1..Len(inFile) :
        (k - 1) * fragSize < Len(inFile) =>
            /\ FragmentName(BaseFilename, k) \in DOMAIN fragDir
            /\ fragDir[FragmentName(BaseFilename, k)] = File(Block(inFile, fragSize, k))

\* the stage the command is in, or was in when it ended
StageNow == IF cmd.exit = NoExit THEN Len(cmd.stages) + 1 ELSE Len(cmd.stages)

\* C25: the backup command runs create, the optional split and the storing
\* stage in this order; nothing is copied or uploaded unless the archive was
\* created and, when fragmenting, split returned with every fragment
\* written; a stage that fails ends the command with exit code 1 before
\* another stage starts.
C25_StagesInOrder ==
    (cmd.storage_type # "none" /\ op # "none") =>
        /\ StageNow \in 1..Len(ExpectedStages)
        /\ op = ExpectedStages[StageNow]
        /\ \A k \in 1..Len(cmd.stages) : cmd.stages[k].op = ExpectedStages[k]
        /\ \A k \in 1..(StageNow - 1) : cmd.stages[k].kind = "returned"
        /\ op \notin StoreOps => usbDir = EmptyDir
        /\ (op \in StoreOps /\ Fragmenting) =>
              /\ cmd.stages[2] = [op |-> "split", kind |-> "returned"]
              /\ EveryFragmentWritten
        /\ cmd.exit = 1 <=> (cmd.exit # NoExit /\ cmd.stages[StageNow].kind # "returned")
        /\ cmd.exit = 0 =>
              /\ StageNow = Len(ExpectedStages)
              /\ cmd.stages[StageNow].kind = "returned"

\* the command ended with 1 after split_file had failed on one of two
\* fragments: the target was not written
C25_Witness ==
    /\ Fragmenting
    /\ cmd.exit = 1
    /\ op = "split"
    /\ Len(tasks) >= 2
    /\ outcome.num_failed = 1
    /\ usbDir = EmptyDir

(***************************************************************************)
(* Properties of the fragments directory after a split (SpecSeq).          *)
(***************************************************************************)
\* C26: after split_file returned, the files of the directory that are
\* named <base>.part<NNN> are exactly the fragments 1..n this call wrote,
\* whatever the directory held before: no fragment of an earlier split
\* remains for a later merge.
C26_OnlyFragmentsOfThisSplit ==
    (op = "split" /\ pc = "done" /\ outcome.kind = "returned") =>
        ExactFragmentNames(fragDir) = {FragmentName(BaseFilename, k) : k \in 1..Len(tasks)}

(***************************************************************************)
(* Properties of the fragments merge_files takes (SpecSeq).                *)
(***************************************************************************)
\* C27: merge_files takes a file of the directory if and only if its name
\* is the prefix followed by .part and three digits; a file of another
\* logical file whose name starts with the prefix and ends with .part<NNN>
\* is not taken.
C27_MergeTakesExactNamesOnly ==
    (op = "merge" /\ outcome.what # "fragments directory") =>
        {fragment_paths[k] : k \in 1..Len(fragment_paths)} = ExactFragmentNames(fragDir)

(***************************************************************************)
(* Properties of the container create_backup_archive builds (SpecArc).     *)
(***************************************************************************)
\* the files below the source folders that are directories of the tree
SourceFiles ==
    {f \in DOMAIN SourceTree :
        /\ SourceTree[f].kind = "file"
        /\ \E k \in 1..Len(source_folders) :
              /\ IsDir(SourceTree, AbsPath(source_folders[k]))
              /\ IsAncestorOf(AbsPath(source_folders[k]), f)}

\* C28: for every SourceSet, nested entries and entries of one base name
\* included, the container create_backup_archive built holds each source
\* file exactly once and the names of its members are pairwise distinct.
C28_EachSourceFileOnce ==
    (op = "create" /\ outcome.kind = "returned") =>
        /\ \A f \in SourceFiles :
              Cardinality({k \in 1..Len(archived) : archived[k].filepath = f}) = 1
        /\ \A j, k \in 1..Len(container) : j # k => container[j].name # container[k].name

====
